---- MODULE Spec2Model ----
(***************************************************************************)
(* Worktree lifecycle manager (packages/worktree-cli/src/index.ts).        *)
(*                                                                         *)
(* The model follows the library's four exported operations                *)
(* (createWorktree, deleteWorktree, listWorktrees, showWorktreeInfo) and   *)
(* the helpers they call.  Every CLI invocation is one operation that runs *)
(* to completion, so each operation is one atomic action.  The operating   *)
(* system, git and the repository's files are the environment: the outcome *)
(* of every external command is an input of the action that runs it.       *)
(***************************************************************************)
EXTENDS Integers, Sequences, FiniteSets, TLC

VARIABLES
    file,          \* .worktree-metadata.json: [status, doc]; status is
                   \* "absent", "valid" (doc is what it parses to) or
                   \* "corrupt" (it does not parse; doc is what it last held)
    gitWorktrees,  \* git's registered worktrees: set of [name, branch]
    branches,      \* git's branches: set of branch names
    procs,         \* live dev-server processes: set of [pid, port]
    busy,          \* ports bound by processes the tool did not start
    clock,         \* the wall clock read by new Date()
    last,          \* the last operation: its arguments, outcome and effects
    running,       \* the create invocations that run side by side: for each
                   \* process its phase ("idle", "loaded": it has read the
                   \* metadata file, "done", "killed"), its arguments, the file as it
                   \* read it and its result
    hist           \* history: autoPorts, the ports given by the successful
                   \* creates without port override since the last call of
                   \* delete, in order; databases, the candidates the latest
                   \* successful create found; overridden, whether a create
                   \* with a port override has succeeded; assigned, the ports
                   \* given by the successful creates so far, in order, for
                   \* as long as none had a port override

vars == <<file, gitWorktrees, branches, procs, busy, clock, last, running, hist>>

----------------------------------------------------------------------------
(* Program constants *)

WORKTREE_DIR == ".worktrees"
DEFAULT_BASE_PORT == 4322
DEFAULT_MAIN_PORT == 4321

\* devServerPid: number | null.  The code only tests it for truthiness.
NULL == 0

\* NaN, the result of parseInt on a string without leading digits; no
\* command line of the model holds the number this stands in for
NaN == -1

\* findProjectRoot() and the environment the process runs in.  An absolute
\* path is the sequence of its segments.
RootDir == <<"home", "repo">>
RootBaseName == RootDir[Len(RootDir)]
PROJECT_PREFIX == ""

----------------------------------------------------------------------------
(* Bounds of the model *)

MaxClock == 2        \* Spec: at most this many records are ever created
MaxPortClock == 3    \* PortSpec: the same, for the runs without delete
MaxDbClock == 2      \* DbSpec: the same, for the runs with databases
MaxCliClock == 2     \* CliSpec: the same, for the runs from the command line
MaxLoadClock == 2    \* LoadSpec: the same, for the runs with a damaged file
MaxRaceClock == 2    \* RaceSpec: the same, for the runs with two creates side by side
MaxMixClock == 3     \* MixSpec: the same, for the runs with a delete beside a create
MaxKillClock == 2    \* KillSpec: the same, for the runs with a kill during a save
MaxStepClock == 2    \* StepSpec: the same, for the runs that probe the ports step by step

\* What the callers ask for and what the environment may answer in a
\* specification:
\*   targets    the (issueNumber, slug) pairs create is called with
\*   issues     the issue numbers delete and info are called with
\*   prefixes   options.branchPrefix ("": not given)
\*   overrides  options.port, when given
\*   servers    options.startServer
\*   links      the node_modules link: nothing to link, linked, link failed
\*   discoveries  how findSqliteDatabases ends: it returns, or a directory
\*              read or stat in it throws
\*   databases  what findSqliteDatabases finds when it returns
\*   pids       the pids the OS hands out
\*   busy       the ports other processes may hold
\*   saveCuts   where a kill may hit the process while saveMetadata runs:
\*              "none" (it is not killed), "before" the file is opened,
\*              "during" the write
\*   maxClock   the bound on the records created
Core ==
    [targets |-> {<<1, "a">>, <<1, "b">>, <<2, "a">>},
     issues |-> {1, 2},
     prefixes |-> {""},
     overrides |-> {DEFAULT_BASE_PORT - 2},
     servers |-> BOOLEAN,
     links |-> {"skip", "ok", "fail"},
     discoveries |-> {"found"},
     databases |-> {<<>>},
     pids |-> {1},
     busy |-> {},
     saveCuts |-> {"none"},
     maxClock |-> MaxClock]

\* Runs of create, list and info only, three records deep.
Ports ==
    [Core EXCEPT !.prefixes = {"", "feat"},
                 !.overrides = {DEFAULT_BASE_PORT - 2, DEFAULT_BASE_PORT + 1},
                 !.servers = {FALSE}, !.links = {"skip"},
                 !.busy = {DEFAULT_BASE_PORT},
                 !.maxClock = MaxPortClock]

----------------------------------------------------------------------------
(* Configuration *)

getConfig == [basePort |-> DEFAULT_BASE_PORT, mainPort |-> DEFAULT_MAIN_PORT]

----------------------------------------------------------------------------
(* Metadata Store *)

EmptyDoc == [worktrees |-> <<>>, nextPort |-> getConfig.basePort]

NoFile == [status |-> "absent", doc |-> EmptyDoc]

\* Mutation: the content is handed out without the parse being checked.
loadMetadata_Unchecked(f) == f.doc

\* loadMetadata: the stored document, or the default when the file is
\* absent or cannot be parsed.
loadMetadata(f) ==
    IF f.status = "valid" THEN f.doc ELSE EmptyDoc

\* JSON.stringify writes null for a number that is NaN, and JSON.parse reads
\* that null back.  For a port, null and 0 behave alike in every later
\* operation (null + 1 is 1, lsof reports neither in use), so the model
\* keeps one value for both.
jsonNumber(n) == IF n = NaN THEN NULL ELSE n

\* the document JSON.parse reads from what JSON.stringify wrote
jsonRoundTrip(md) ==
    [worktrees |-> [i \in DOMAIN md.worktrees |->
                       [name |-> md.worktrees[i].name,
                        info |-> [md.worktrees[i].info EXCEPT
                                     !.port = jsonNumber(@),
                                     !.issueNumber = jsonNumber(@)]]],
     nextPort |-> jsonNumber(md.nextPort)]

\* fs.writeFileSync(path, text) opens the file with O_TRUNC and then writes
\* the text: a process killed before the open leaves the old file, one
\* killed between the open and the end of the write leaves an empty or cut
\* text, which does not parse.
writeFileSync(old, new, cut) ==
    CASE cut = "none" -> new
      [] cut = "before" -> old
      [] cut = "during" -> [status |-> "corrupt", doc |-> new.doc]

\* saveMetadata: the whole document overwrites the file.
saveMetadata(md) == [status |-> "valid", doc |-> jsonRoundTrip(md)]

\* Mutation: the duplicate check never finds the name.
HasWorktree_Never(md, name) == FALSE

\* metadata.worktrees[worktreeName] is truthy
HasWorktree(md, name) ==
    \E i \in DOMAIN md.worktrees : md.worktrees[i].name = name

\* Mutation: the lookup takes the first record, whatever its issue number.
FindByIssue_First(md, n) == IF md.worktrees = <<>> THEN 0 ELSE 1

\* Object.keys(metadata.worktrees).find(name => ...issueNumber === n):
\* the index of the first record that carries the issue number, 0 if none.
FindByIssue(md, n) ==
    LET hits == {i \in DOMAIN md.worktrees : md.worktrees[i].info.issueNumber = n}
    IN  IF hits = {} THEN 0
        ELSE CHOOSE i \in hits : \A j \in hits : i <= j

\* Mutation: the record dropped is the last one.
RemoveAt_Last(ws, i) == SubSeq(ws, 1, Len(ws) - 1)

\* delete metadata.worktrees[worktreeName]
RemoveAt(ws, i) ==
    [k \in 1..(Len(ws) - 1) |-> IF k < i THEN ws[k] ELSE ws[k + 1]]

----------------------------------------------------------------------------
(* Port Allocator *)

\* isPortInUse: lsof reports something bound to the port.
isPortInUse(port, bound) == port \in bound

BoundPorts == busy \cup {p.port : p \in procs}

\* Mutation: the port is handed out without being probed.
ProbeFrom_Unprobed(port, bound) == port

RECURSIVE ProbeFrom(_, _)
ProbeFrom(port, bound) ==
    IF isPortInUse(port, bound) THEN ProbeFrom(port + 1, bound) ELSE port

\* getNextAvailablePort(rootDir, preferredPort): preferredPort ?? nextPort,
\* then upwards to the first port that is not in use.
getNextAvailablePort(f, hasPreferred, preferredPort, bound) ==
    LET metadata == loadMetadata(f)
        start == IF hasPreferred THEN preferredPort ELSE metadata.nextPort
    IN  ProbeFrom(start, bound)

----------------------------------------------------------------------------
(* Names derived by createWorktree *)

\* `issue-${issueNumber}-${slug}`
worktreeName(issueNumber, slug) ==
    "issue-" \o ToString(issueNumber) \o "-" \o slug

\* path.join(base, ...segments): the segments are appended one by one, a
\* ".." drops the last segment of what is there (and nothing at the root)
RECURSIVE pathJoin(_, _)
pathJoin(base, segments) ==
    IF segments = <<>> THEN base
    ELSE IF Head(segments) = ".."
    THEN pathJoin(IF base = <<>> THEN <<>> ELSE SubSeq(base, 1, Len(base) - 1),
                  Tail(segments))
    ELSE pathJoin(Append(base, Head(segments)), Tail(segments))

\* path.relative(from, to): one ".." for every segment of from below the
\* common prefix, then what is left of to
RECURSIVE pathRelative(_, _)
pathRelative(from, to) ==
    IF from # <<>> /\ to # <<>> /\ Head(from) = Head(to)
    THEN pathRelative(Tail(from), Tail(to))
    ELSE [i \in 1..Len(from) |-> ".."] \o to

\* path.join(rootDir, WORKTREE_DIR, worktreeName)
worktreePathOf(name) == pathJoin(RootDir, <<WORKTREE_DIR, name>>)

\* options.branchPrefix || process.env.PROJECT_PREFIX || path.basename(rootDir)
\* (an empty string is falsy)
branchPrefixOf(prefixOpt) ==
    IF prefixOpt # "" THEN prefixOpt
    ELSE IF PROJECT_PREFIX # "" THEN PROJECT_PREFIX
    ELSE RootBaseName

\* Mutation: the branch is named after the slug alone.
branchNameOf_SlugOnly(prefixOpt, issueNumber, slug) ==
    branchPrefixOf(prefixOpt) \o "/" \o slug

\* `${branchPrefix}/issue-${issueNumber}-${slug}`
branchNameOf(prefixOpt, issueNumber, slug) ==
    branchPrefixOf(prefixOpt) \o "/issue-" \o ToString(issueNumber) \o "-" \o slug

\* `${WORKTREE_DIR}/${worktreeName}`
recordPathOf(name) == WORKTREE_DIR \o "/" \o name

----------------------------------------------------------------------------
(* git, as far as the tool drives it *)

\* git worktree add refuses a path that is already a worktree and a branch
\* that another worktree has checked out; it may fail for reasons outside
\* the model too (envFails).
gitAddFails(name, branch, envFails) ==
    \/ envFails
    \/ \E w \in gitWorktrees : w.name = name
    \/ \E w \in gitWorktrees : w.branch = branch

\* git worktree remove refuses a path that is no registered worktree; it may
\* fail for other reasons (uncommitted changes, a lock).
gitRemoveFails(path, envFails) ==
    \/ envFails
    \/ ~ \E w \in gitWorktrees : recordPathOf(w.name) = path

----------------------------------------------------------------------------
(* Database Snapshot Engine *)

\* A discovered candidate: its path (source), whether it is a
\* directory, whether stat and copy work on it (readable), and for each
\* database file to copy whether the copy passes PRAGMA integrity_check (a
\* single file has exactly one entry; a directory has one per *.sqlite file
\* in it).
D1Ok ==
    [source |-> pathJoin(RootDir, <<".wrangler", "state", "v3", "d1", "x">>), isDirectory |-> TRUE, readable |-> TRUE,
     valid |-> <<TRUE, TRUE>>]
D1Mixed ==
    [source |-> pathJoin(RootDir, <<".wrangler", "state", "v3", "d1", "x">>), isDirectory |-> TRUE, readable |-> TRUE,
     valid |-> <<TRUE, FALSE>>]
D1Empty ==
    [source |-> pathJoin(RootDir, <<".wrangler", "state", "v3", "d1", "y">>), isDirectory |-> TRUE, readable |-> TRUE,
     valid |-> <<>>]
RootOk == [source |-> pathJoin(RootDir, <<"app.db">>), isDirectory |-> FALSE, readable |-> TRUE, valid |-> <<TRUE>>]
RootBad == [source |-> pathJoin(RootDir, <<"app.db">>), isDirectory |-> FALSE, readable |-> TRUE, valid |-> <<FALSE>>]
RootGone == [source |-> pathJoin(RootDir, <<"old.sqlite">>), isDirectory |-> FALSE, readable |-> FALSE, valid |-> <<TRUE>>]
\* WORKTREE_DB_PATH=data/dev.sqlite3
CustomOk ==
    [source |-> pathJoin(RootDir, <<"data", "dev.sqlite3">>), isDirectory |-> FALSE,
     readable |-> TRUE, valid |-> <<TRUE>>]
\* WORKTREE_DB_PATH=../../app.db: a database kept outside the repository
CustomOutside ==
    [source |-> pathJoin(RootDir, <<"..", "..", "app.db">>), isDirectory |-> FALSE,
     readable |-> TRUE, valid |-> <<TRUE>>]

\* What findSqliteDatabases may return: the D1 directories, then the
\* database files of the root, then WORKTREE_DB_PATH.
DbScenarios ==
    { <<>>, <<D1Mixed, RootOk>>, <<D1Ok, RootBad>>, <<D1Empty, RootGone, CustomOk>>,
      <<RootOk, CustomOutside>> }

\* Mutation: a directory is accepted as soon as one of its files passes.
snapshotDatabase_Partial(worktreePath, c) ==
    [ok |-> c.readable /\ \E i \in DOMAIN c.valid : c.valid[i],
     target |-> pathJoin(worktreePath, pathRelative(RootDir, c.source))]

\* snapshotDatabase: [ok, target]; it throws (ok = FALSE) when stat or copy
\* fails, for a directory without database files and for any copy that fails
\* the integrity check.
snapshotDatabase(worktreePath, c) ==
    LET relativePath == pathRelative(RootDir, c.source)
        targetPath == pathJoin(worktreePath, relativePath)
        allValid == \A i \in DOMAIN c.valid : c.valid[i]
    IN  IF ~c.readable
        THEN [ok |-> FALSE, target |-> targetPath]
        ELSE IF c.isDirectory /\ Len(c.valid) = 0
        THEN [ok |-> FALSE, target |-> targetPath]
        ELSE [ok |-> allValid, target |-> targetPath]

\* Mutation: the first failure ends the loop.
RECURSIVE snapshotDatabases_StopAtFailure(_, _)
snapshotDatabases_StopAtFailure(worktreePath, databases) ==
    IF databases = <<>> THEN [snapshots |-> <<>>, attempts |-> <<>>]
    ELSE LET r == snapshotDatabase(worktreePath, Head(databases))
             rest == snapshotDatabases_StopAtFailure(worktreePath, Tail(databases))
         IN  IF r.ok
             THEN [snapshots |-> <<r.target>> \o rest.snapshots,
                   attempts |-> <<TRUE>> \o rest.attempts]
             ELSE [snapshots |-> <<>>, attempts |-> <<FALSE>>]

\* snapshotDatabases over the candidates found: every candidate is tried, the
\* failures are logged and left out.  snapshots is what it returns, attempts
\* the outcome of each call of snapshotDatabase, in order.
RECURSIVE snapshotDatabases(_, _)
snapshotDatabases(worktreePath, databases) ==
    IF databases = <<>> THEN [snapshots |-> <<>>, attempts |-> <<>>]
    ELSE LET r == snapshotDatabase(worktreePath, Head(databases))
             rest == snapshotDatabases(worktreePath, Tail(databases))
         IN  [snapshots |-> IF r.ok THEN <<r.target>> \o rest.snapshots
                            ELSE rest.snapshots,
              attempts |-> <<r.ok>> \o rest.attempts]

----------------------------------------------------------------------------
(* Dev server *)

\* Mutation: the pid of the started process is never taken into the record.
startDevServer_Never(hasPackageJson, spawnPid) == NULL

\* startDevServer: it throws without a package.json in the worktree and
\* when spawn yields no pid; otherwise it returns the pid (NULL: it threw).
startDevServer(hasPackageJson, spawnPid) ==
    IF ~hasPackageJson THEN NULL
    ELSE IF spawnPid = NULL THEN NULL
    ELSE spawnPid

\* process.kill(pid, 'SIGTERM') reaches whichever live process has the pid.
ProcsAfterKill(pid) == {p \in procs : p.pid # pid}

----------------------------------------------------------------------------
(* The record of the last operation *)

NoInfo ==
    [issueNumber |-> 0, branch |-> "", port |-> 0, path |-> "", createdAt |-> 0,
     dbSnapshots |-> <<>>, devServerPid |-> NULL]

Eff(kind, n) == [kind |-> kind, n |-> n]

\* one probe per candidate port from start up to the port returned
ProbeEffects(start, port) ==
    [i \in 1..(port - start + 1) |-> Eff("probe", start + i - 1)]

\* The arguments of the call; create adds options.port when it is given
\* (hasPort, portOpt).  options.startServer shows in the effects.
Call(op, issueNumber, slug, force, prefixOpt) ==
    [op |-> op, issueNumber |-> issueNumber, slug |-> slug, force |-> force,
     prefixOpt |-> prefixOpt, hasPort |-> FALSE, portOpt |-> 0]

Did(effects, kind, n) == \E i \in DOMAIN effects : effects[i] = Eff(kind, n)

\* The exit code of the process that ran the operation.  main ends the
\* process with 1 from its catch block when the operation throws and from
\* its argument checks; otherwise the process ends by itself, with 0, unless
\* a spawn gave no pid: that ChildProcess emits 'error' on the next tick,
\* nothing listens for it, and the uncaught exception ends the process with
\* 1 after the operation has returned.
mainExit(result, effects) ==
    IF result # "ok" THEN 1
    ELSE IF Did(effects, "spawn", NULL) THEN 1
    ELSE 0

\* result: "ok" or the error the operation ended with; ret: the record
\* returned (create, info); listed: the records returned (list); found: the
\* name of the record a lookup by issue number picked (delete); effects: the
\* external commands run and the saves, in order; before: the metadata file
\* when the operation started; loaded: what loadMetadata gave the operation
\* for it; exit: the exit code of the process.
OutcomeOf(f, call, result, ret, found, effects) ==
    [call |-> call, result |-> result, ret |-> ret, listed |-> <<>>,
     found |-> found, effects |-> effects, before |-> f,
     loaded |-> loadMetadata(f),
     exit |-> mainExit(result, effects)]

\* an operation that runs from its start to its end on the file as it is
Outcome(call, result, ret, found, effects) ==
    OutcomeOf(file, call, result, ret, found, effects)

NoCall == Call("none", 0, "", FALSE, "")

----------------------------------------------------------------------------
(* createWorktree *)

\* metadata.worktrees[worktreeName] = worktreeInfo
\* Mutation: the new record replaces the whole map.
SetWorktree_Only(ws, name, info) == <<[name |-> name, info |-> info]>>

SetWorktree(ws, name, info) ==
    IF \E i \in DOMAIN ws : ws[i].name = name
    THEN [i \in DOMAIN ws |-> IF ws[i].name = name
                              THEN [name |-> name, info |-> info] ELSE ws[i]]
    ELSE Append(ws, [name |-> name, info |-> info])

\* Mutation: nextPort leaves a gap of one port.
NextPortAfter_Gap(port) == port + 2

\* Mutation: nextPort is set to the port just given out.
NextPortAfter_Same(port) == port

\* metadata.nextPort = port + 1 (NaN + 1 is NaN)
NextPortAfter(port) == IF port = NaN THEN NaN ELSE port + 1

\* Mutation: the failure of the git step is logged and create goes on.
CreateProceeds_Always(gitFailed) == TRUE

\* the catch block of the git step rethrows: nothing after it runs
CreateProceeds(gitFailed) == ~gitFailed

\* Mutation: the save comes before the dev server is started.
createSteps_SaveBeforeStart(probes, git, link, snapshots, start) ==
    probes \o git \o link \o snapshots \o <<Eff("save", 0)>> \o start

\* the order of the steps of a create that succeeds: the port, git, the
\* node_modules link, the snapshots, the dev server, and saveMetadata last
createSteps(probes, git, link, snapshots, start) ==
    probes \o git \o link \o snapshots \o start \o <<Eff("save", 0)>>

\* Mutation: the document is read again right before it is saved.
metadataAtSave_Reloaded(f) == loadMetadata(file)

\* the metadata object create adds its record to and saves is the one it
\* loaded at its start
metadataAtSave(f) == loadMetadata(f)

\* createWorktree from the point where it has read the metadata file (f is
\* the file as it read it).  The environment's answers (git, the link, the
\* databases found, the package.json, the spawn) are drawn where the code
\* asks for them.
CreateWith(f, issueNumber, slug, startServer, hasPort, portOpt, prefixOpt, env) ==
    LET metadata == loadMetadata(f)
        name == worktreeName(issueNumber, slug)
        wpath == worktreePathOf(name)
        branch == branchNameOf(prefixOpt, issueNumber, slug)
        call == [Call("create", issueNumber, slug, FALSE, prefixOpt)
                     EXCEPT !.hasPort = hasPort, !.portOpt = portOpt]
    IN
    IF HasWorktree(metadata, name)
    THEN /\ last' = OutcomeOf(f, call, "DuplicateError", NoInfo, "", <<>>)
         /\ UNCHANGED <<file, gitWorktrees, branches, procs, busy, clock, hist>>
    ELSE
    LET start == IF hasPort THEN portOpt ELSE loadMetadata(file).nextPort
        port == getNextAvailablePort(file, hasPort, portOpt, BoundPorts)
        probes == ProbeEffects(start, port)
        branchExists == branch \in branches
        gitEffects(ok) ==
            <<Eff("git-branch-list", IF branchExists THEN 1 ELSE 0),
              Eff(IF branchExists THEN "git-worktree-add" ELSE "git-worktree-add-b",
                  IF ok THEN 1 ELSE 0)>>
    IN
    \E gitEnvFails \in BOOLEAN :
    LET gitFailed == gitAddFails(name, branch, gitEnvFails) IN
    IF ~CreateProceeds(gitFailed)
    THEN /\ last' = OutcomeOf(f, call, "ProvisionError", NoInfo, "",
                              probes \o gitEffects(FALSE))
         /\ UNCHANGED <<file, gitWorktrees, branches, procs, busy, clock, hist>>
    ELSE
    \E link \in env.links, discovery \in env.discoveries :
    LET linkEffects == IF link = "skip" THEN <<>>
                       ELSE <<Eff("symlink", IF link = "ok" THEN 1 ELSE 0)>>
    IN
    IF discovery = "throws"
    THEN /\ gitWorktrees' = gitWorktrees \cup {[name |-> name, branch |-> branch]}
         /\ branches' = branches \cup {branch}
         /\ last' = OutcomeOf(f, call, "DiscoveryError", NoInfo, "",
                              probes \o gitEffects(~gitFailed) \o linkEffects
                              \o <<Eff("discover", 0)>>)
         /\ UNCHANGED <<file, procs, busy, clock, hist>>
    ELSE
    \E databases \in env.databases,
       hasPackageJson \in (IF startServer THEN BOOLEAN ELSE {FALSE}) :
    \E spawnPid \in (IF startServer /\ hasPackageJson
                     THEN {NULL} \cup (env.pids \ {p.pid : p \in procs})
                     ELSE {NULL}),
       cut \in env.saveCuts :
    LET snapshot == snapshotDatabases(wpath, databases)
        dbSnapshots == snapshot.snapshots
        snapshotEffects ==
            <<Eff("discover", 1)>>
            \o [k \in DOMAIN snapshot.attempts |->
                   Eff("snapshot", IF snapshot.attempts[k] THEN 1 ELSE 0)]
        pid == IF startServer THEN startDevServer(hasPackageJson, spawnPid) ELSE NULL
        startEffects ==
            IF ~startServer THEN <<>>
            ELSE <<Eff("package-json", IF hasPackageJson THEN 1 ELSE 0)>>
                 \o (IF hasPackageJson THEN <<Eff("spawn", spawnPid)>> ELSE <<>>)
        worktreeInfo ==
            [issueNumber |-> issueNumber, branch |-> branch, port |-> port,
             path |-> recordPathOf(name), createdAt |-> clock,
             dbSnapshots |-> dbSnapshots, devServerPid |-> pid]
        saved == [worktrees |-> SetWorktree(metadataAtSave(f).worktrees, name,
                                            worktreeInfo),
                  nextPort |-> NextPortAfter(port)]
    IN  /\ clock < env.maxClock
        /\ file' = writeFileSync(file, saveMetadata(saved), cut)
        /\ gitWorktrees' = gitWorktrees \cup {[name |-> name, branch |-> branch]}
        /\ branches' = branches \cup {branch}
        /\ procs' = IF pid # NULL THEN procs \cup {[pid |-> pid, port |-> port]}
                    ELSE procs
        /\ clock' = clock + 1
        /\ hist' = [autoPorts |-> IF hasPort THEN hist.autoPorts
                                  ELSE Append(hist.autoPorts, port),
                    databases |-> databases,
                    overridden |-> hist.overridden \/ hasPort,
                    assigned |-> IF hist.overridden \/ hasPort THEN <<>>
                                 ELSE Append(hist.assigned, port)]
        /\ last' = OutcomeOf(f, call, IF cut = "none" THEN "ok" ELSE "Killed",
                             IF cut = "none" THEN worktreeInfo ELSE NoInfo, "",
                             createSteps(probes, gitEffects(~gitFailed), linkEffects,
                                         snapshotEffects, startEffects))
        /\ UNCHANGED busy

\* createWorktree as one invocation that nothing else runs beside.
Create(issueNumber, slug, startServer, hasPort, portOpt, prefixOpt, env) ==
    /\ CreateWith(file, issueNumber, slug, startServer, hasPort, portOpt,
                  prefixOpt, env)
    /\ UNCHANGED running

----------------------------------------------------------------------------
(* deleteWorktree *)

\* Mutation: the record is dropped whether or not the removal worked.
DeleteProceeds_Always(removeFailed, force) == TRUE

\* Mutation: a failed removal ends the delete even with force.
DeleteProceeds_IgnoresForce(removeFailed, force) == ~removeFailed

\* the catch block of the removal: the delete goes on to drop the record
\* when the removal worked or force is set
DeleteProceeds(removeFailed, force) == ~removeFailed \/ force

\* Mutation: the signal is sent whether or not a pid is recorded.
stopSteps_Unconditional(pid, alive) ==
    <<Eff(IF alive THEN "signal" ELSE "signal-failed", pid)>>

\* if (worktree.devServerPid) await stopDevServer(pid): one SIGTERM when a
\* pid is recorded; stopDevServer catches the error of a signal that
\* reaches no process and only warns
stopSteps(pid, alive) ==
    IF pid = NULL THEN <<>>
    ELSE <<Eff(IF alive THEN "signal" ELSE "signal-failed", pid)>>

\* Mutation: the cursor goes back to the port of the record that is dropped.
nextPortAfterDelete_Reclaimed(metadata, worktree) == worktree.port

\* delete drops the record and saves the document it loaded: nextPort is not
\* touched
nextPortAfterDelete(metadata, worktree) == metadata.nextPort

\* deleteWorktree from the point where it has read the metadata file (f is
\* the file as it read it).
DeleteWith(f, issueNumber, force) ==
    LET metadata == loadMetadata(f)
        i == FindByIssue(metadata, issueNumber)
        call == Call("delete", issueNumber, "", force, "")
    IN
    IF i = 0
    THEN /\ last' = OutcomeOf(f, call, "NotFoundError", NoInfo, "", <<>>)
         /\ hist' = [hist EXCEPT !.autoPorts = <<>>]
         /\ UNCHANGED <<file, gitWorktrees, branches, procs, busy, clock>>
    ELSE
    LET worktree == metadata.worktrees[i].info
        pid == worktree.devServerPid
        alive == \E p \in procs : p.pid = pid
        stopEffects == stopSteps(pid, alive)
        saved == [worktrees |-> RemoveAt(metadata.worktrees, i),
                  nextPort |-> nextPortAfterDelete(metadata, worktree)]
    IN
    \E gitEnvFails \in BOOLEAN :
    LET removeFailed == gitRemoveFails(worktree.path, gitEnvFails)
        removeEffects == <<Eff("git-worktree-remove", IF removeFailed THEN 0 ELSE 1)>>
    IN  /\ procs' = IF pid = NULL THEN procs ELSE ProcsAfterKill(pid)
        /\ gitWorktrees' = IF removeFailed THEN gitWorktrees
                           ELSE {w \in gitWorktrees : recordPathOf(w.name) # worktree.path}
        /\ hist' = [hist EXCEPT !.autoPorts = <<>>]
        /\ IF DeleteProceeds(removeFailed, force)
           THEN /\ file' = saveMetadata(saved)
                /\ last' = OutcomeOf(f, call, "ok", NoInfo, metadata.worktrees[i].name,
                                     stopEffects \o removeEffects \o <<Eff("save", 0)>>)
           ELSE /\ file' = file
                /\ last' = OutcomeOf(f, call, "TeardownError", NoInfo,
                                     metadata.worktrees[i].name,
                                     stopEffects \o removeEffects)
        /\ UNCHANGED <<branches, busy, clock>>

\* deleteWorktree as one invocation that nothing else runs beside.
Delete(issueNumber, force) ==
    /\ DeleteWith(file, issueNumber, force)
    /\ UNCHANGED running

----------------------------------------------------------------------------
(* listWorktrees, showWorktreeInfo *)

\* worktreeNames.sort((a, b) => issueNumber(a) - issueNumber(b)): a stable
\* sort, equal issue numbers keep their insertion order.
RECURSIVE InsertByIssue(_, _)
InsertByIssue(sorted, e) ==
    IF sorted = <<>> THEN <<e>>
    ELSE IF Head(sorted).info.issueNumber <= e.info.issueNumber
         THEN <<Head(sorted)>> \o InsertByIssue(Tail(sorted), e)
         ELSE <<e>> \o sorted

\* Mutation: the names are left in insertion order.
SortByIssue_Unsorted(ws) == ws

RECURSIVE SortByIssue(_)
SortByIssue(ws) ==
    IF ws = <<>> THEN <<>>
    ELSE InsertByIssue(SortByIssue(SubSeq(ws, 1, Len(ws) - 1)), ws[Len(ws)])

\* listWorktrees: the records in ascending issue number.
listWorktrees(f) ==
    LET sorted == SortByIssue(loadMetadata(f).worktrees)
    IN  [i \in DOMAIN sorted |-> sorted[i].info]

\* showWorktreeInfo: [result, ret], the first record that carries the issue
\* number, or the not-found error.
showWorktreeInfo(f, issueNumber) ==
    LET metadata == loadMetadata(f)
        i == FindByIssue(metadata, issueNumber)
    IN  IF i = 0 THEN [result |-> "NotFoundError", ret |-> NoInfo]
        ELSE [result |-> "ok", ret |-> metadata.worktrees[i].info]

\* Mutation: list writes back the document it loaded.
List_Saving ==
    /\ last' = [Outcome(Call("list", 0, "", FALSE, ""), "ok", NoInfo, "", <<>>)
                    EXCEPT !.listed = listWorktrees(file)]
    /\ file' = saveMetadata(loadMetadata(file))
    /\ UNCHANGED <<gitWorktrees, branches, procs, busy, clock, hist, running>>

\* Both only read the document; what they return is the operators above
\* applied to the file.
List ==
    /\ last' = [Outcome(Call("list", 0, "", FALSE, ""), "ok", NoInfo, "", <<>>)
                    EXCEPT !.listed = listWorktrees(file)]
    /\ UNCHANGED <<file, gitWorktrees, branches, procs, busy, clock, hist, running>>

Info(issueNumber) ==
    LET r == showWorktreeInfo(file, issueNumber)
    IN  /\ last' = Outcome(Call("info", issueNumber, "", FALSE, ""), r.result,
                           r.ret, "", <<>>)
        /\ UNCHANGED <<file, gitWorktrees, branches, procs, busy, clock, hist, running>>

----------------------------------------------------------------------------
(* Environment: a dev server exits on its own *)

DevServerExit ==
    \E p \in procs :
        /\ procs' = procs \ {p}
        /\ UNCHANGED <<file, gitWorktrees, branches, busy, clock, last, hist, running>>

----------------------------------------------------------------------------
(* Environment: the metadata file is damaged *)

\* Something other than the tool (an editor, an interrupted write, a merge)
\* leaves the file with content that JSON.parse rejects.
FileDamaged ==
    /\ file.status = "valid"
    /\ file' = [status |-> "corrupt", doc |-> file.doc]
    /\ UNCHANGED <<gitWorktrees, branches, procs, busy, clock, last, hist, running>>

----------------------------------------------------------------------------
(* The command line (cli.ts) *)

\* An argument after lexing: a word, --key, --key=value or -key.
Word(s) == [dashes |-> 0, key |-> s, hasValue |-> FALSE, value |-> ""]
Flag(k) == [dashes |-> 2, key |-> k, hasValue |-> FALSE, value |-> ""]
FlagWith(k, v) == [dashes |-> 2, key |-> k, hasValue |-> TRUE, value |-> v]
Short(k) == [dashes |-> 1, key |-> k, hasValue |-> FALSE, value |-> ""]

Includes(args, a) == \E i \in DOMAIN args : args[i] = a

IsWord(a) == a.dashes = 0
IsFlag(a) == a.dashes > 0

\* the argument as typed
RawOf(a) ==
    IF a.dashes = 0 THEN a.key
    ELSE IF a.dashes = 1 THEN "-" \o a.key
    ELSE IF a.hasValue THEN "--" \o a.key \o "=" \o a.value
    ELSE "--" \o a.key

\* parseArgs: the first argument is the command; of the others, those that
\* start with a dash are flags (value ?? true) and the rest positional.
parseArgs(args) ==
    [command |-> RawOf(args[1]),
     positional |-> LET words == SelectSeq(Tail(args), IsWord)
                    IN  [i \in DOMAIN words |-> words[i].key],
     flags |-> SelectSeq(Tail(args), IsFlag)]

\* flags[key]: the last assignment wins; absent when there is none
HasFlag(flags, key) == \E i \in DOMAIN flags : flags[i].key = key

FlagOf(flags, key) ==
    LET hits == {i \in DOMAIN flags : flags[i].key = key}
    IN  flags[CHOOSE i \in hits : \A j \in hits : j <= i]

\* Boolean(flags[key]): true for --key and for --key=value with a value
FlagBoolean(flags, key) ==
    /\ HasFlag(flags, key)
    /\ FlagOf(flags, key).hasValue => FlagOf(flags, key).value # ""

\* typeof flags[key] === 'string'
FlagIsString(flags, key) == HasFlag(flags, key) /\ FlagOf(flags, key).hasValue

\* positional[k - 1]; undefined and the empty string behave alike in main
\* (both falsy, both NaN for parseInt)
Positional(p, k) == IF k <= Len(p.positional) THEN p.positional[k] ELSE ""

\* parseInt on the strings the command lines of the model hold: the leading
\* decimal digits, NaN when there are none.
parseInt(s) ==
    CASE s = "0" -> 0
      [] s = "15" -> 15
      [] s = "15th" -> 15
      [] s = "42" -> 42
      [] s = "4320" -> 4320
      [] s = "-5" -> -5
      [] OTHER -> NaN

\* !issueNumber || isNaN(issueNumber)
BadIssueNumber(n) == n = 0 \/ n = NaN

\* main leaves through process.exit before any operation runs (and before
\* anything is loaded)
ExitEarly(op, result) ==
    /\ last' = [Outcome(Call(op, 0, "", FALSE, ""), result, NoInfo, "", <<>>)
                    EXCEPT !.loaded = EmptyDoc]
    /\ UNCHANGED <<file, gitWorktrees, branches, procs, busy, clock, hist, running>>

\* main: one run of the command line tool.
Main(args, env) ==
    IF args = <<>> \/ Includes(args, Flag("help")) \/ Includes(args, Short("h"))
    THEN ExitEarly("help", "ok")
    ELSE IF Includes(args, Flag("version")) \/ Includes(args, Short("v"))
    THEN ExitEarly("version", "ok")
    ELSE
    LET p == parseArgs(args)
        issueNumber == parseInt(Positional(p, 1))
        slug == Positional(p, 2)
    IN  CASE p.command = "create" ->
                 IF BadIssueNumber(issueNumber) \/ slug = ""
                 THEN ExitEarly("create", "UsageError")
                 ELSE Create(issueNumber, slug,
                             FlagBoolean(p.flags, "start-server"),
                             FlagIsString(p.flags, "port"),
                             IF FlagIsString(p.flags, "port")
                             THEN parseInt(FlagOf(p.flags, "port").value) ELSE 0,
                             IF FlagIsString(p.flags, "branch-prefix")
                             THEN FlagOf(p.flags, "branch-prefix").value ELSE "",
                             env)
          [] p.command = "delete" ->
                 IF BadIssueNumber(issueNumber)
                 THEN ExitEarly("delete", "UsageError")
                 ELSE Delete(issueNumber, FlagBoolean(p.flags, "force"))
          [] p.command = "list" -> List
          [] p.command = "info" ->
                 IF BadIssueNumber(issueNumber)
                 THEN ExitEarly("info", "UsageError")
                 ELSE Info(issueNumber)
          [] OTHER -> ExitEarly("unknown", "UnknownCommand")

\* The command lines of CliSpec.
CliLines ==
    { <<>>,
      <<Word("list"), Flag("version")>>,
      <<Word("create"), Word("15"), Word("dark-mode")>>,
      <<Word("create"), Word("15"), Word("dark-mode"), Flag("start-server")>>,
      <<Word("create"), Word("15th"), Word("dark-mode"), FlagWith("port", "4320")>>,
      <<Word("create"), Word("42"), Word("api-refactor"), FlagWith("branch-prefix", "myapp")>>,
      <<Word("create"), Word("15"), Word("dark-mode"), FlagWith("port", "0")>>,
      <<Word("create"), Word("42"), Word("api-refactor"), FlagWith("port", "-5")>>,
      <<Word("create"), Word("42"), Word("api-refactor"), FlagWith("port", "abc")>>,
      <<Word("create"), Word("15")>>,
      <<Word("create"), Word("0"), Word("dark-mode")>>,
      <<Word("delete"), Word("15")>>,
      <<Word("delete"), Word("15"), Flag("force")>>,
      <<Word("delete"), Flag("force")>>,
      <<Word("list")>>,
      <<Word("info"), Word("15")>>,
      <<Word("info"), Word("abc")>>,
      <<Word("remove"), Word("15")>> }

\* What the environment may answer in CliSpec.
Cli ==
    [Core EXCEPT !.links = {"skip", "fail"},
                 !.databases = {<<>>, <<RootBad>>},
                 !.busy = {DEFAULT_BASE_PORT},
                 !.maxClock = MaxCliClock]

----------------------------------------------------------------------------
(* Specification *)

\* The processes that may run a create side by side, and one that runs none.
Procs == {"A", "B"}

Idle == [phase |-> "idle", op |-> "none", issueNumber |-> 0, slug |-> "",
         hasPort |-> FALSE, portOpt |-> 0, prefixOpt |-> "", force |-> FALSE,
         candidate |-> 0, read |-> NoFile, result |-> "none"]

\* A repository the tool has not been used in.
InitWith(env) ==
    /\ file = NoFile
    /\ gitWorktrees = {}
    /\ branches = {}
    /\ procs = {}
    /\ busy \in SUBSET env.busy
    /\ clock = 0
    /\ last = [call |-> NoCall, result |-> "none", ret |-> NoInfo,
               listed |-> <<>>, found |-> "", effects |-> <<>>,
               before |-> NoFile, loaded |-> EmptyDoc, exit |-> 0]
    /\ running = [p \in Procs |-> Idle]
    /\ hist = [autoPorts |-> <<>>, databases |-> <<>>, overridden |-> FALSE,
               assigned |-> <<>>]

Init == InitWith(Core)

InitPorts == InitWith(Ports)

CreateOp(env) ==
    \E target \in env.targets, prefixOpt \in env.prefixes,
       hasPort \in BOOLEAN, startServer \in env.servers :
    \E portOpt \in (IF hasPort THEN env.overrides ELSE {0}) :
        Create(target[1], target[2], startServer, hasPort, portOpt, prefixOpt, env)

DeleteOp(env) ==
    \E issueNumber \in env.issues, force \in BOOLEAN :
        Delete(issueNumber, force)

InfoOp(env) == \E issueNumber \in env.issues : Info(issueNumber)

Next ==
    \/ CreateOp(Core)
    \/ DeleteOp(Core)
    \/ List
    \/ InfoOp(Core)
    \/ DevServerExit

Spec == Init /\ [][Next]_vars

\* create, list and info only: the runs that contain no delete
NextPorts ==
    \/ CreateOp(Ports)
    \/ List
    \/ InfoOp(Ports)

PortSpec == InitPorts /\ [][NextPorts]_vars

\* Repositories with databases to snapshot, none of them or some that
\* cannot be copied or verified; no dev server.
Dbs ==
    [Core EXCEPT !.targets = {<<1, "a">>, <<2, "b">>},
                 !.servers = {FALSE}, !.links = {"ok", "fail"},
                 !.discoveries = {"found", "throws"},
                 !.databases = DbScenarios,
                 !.maxClock = MaxDbClock]

InitDbs == InitWith(Dbs)

NextDbs ==
    \/ CreateOp(Dbs)
    \/ DeleteOp(Dbs)
    \/ List
    \/ InfoOp(Dbs)

DbSpec == InitDbs /\ [][NextDbs]_vars

InitCli == InitWith(Cli)

NextCli ==
    \/ \E args \in CliLines : Main(args, Cli)
    \/ DevServerExit

CliSpec == InitCli /\ [][NextCli]_vars

\* Runs in which the metadata file may get damaged between operations.
Load ==
    [Core EXCEPT !.servers = {FALSE}, !.links = {"skip"},
                 !.maxClock = MaxLoadClock]

InitLoad == InitWith(Load)

NextLoad ==
    \/ CreateOp(Load)
    \/ DeleteOp(Load)
    \/ List
    \/ InfoOp(Load)
    \/ FileDamaged

LoadSpec == InitLoad /\ [][NextLoad]_vars

\* the worktree name the create of process p is about
RunNameOf(p) == worktreeName(running[p].issueNumber, running[p].slug)

\* Two invocations of create side by side.  Each is a process of its own with
\* its own copy of the document: it reads the file when it starts and writes
\* the file when it ends, and nothing makes the two wait for one another.
Race ==
    [Core EXCEPT !.targets = {<<1, "a">>, <<1, "b">>, <<2, "b">>},
                 !.servers = {FALSE}, !.links = {"skip"},
                 !.maxClock = MaxRaceClock]

InitRace == InitWith(Race)

\* Process p starts a create: loadMetadata at the head of createWorktree.
Begin(p, issueNumber, slug, hasPort, portOpt, prefixOpt) ==
    /\ running[p].phase = "idle"
    /\ running' = [running EXCEPT ![p] =
                      [Idle EXCEPT !.phase = "loaded", !.op = "create",
                                   !.issueNumber = issueNumber, !.slug = slug,
                                   !.hasPort = hasPort, !.portOpt = portOpt,
                                   !.prefixOpt = prefixOpt, !.read = file]]
    /\ UNCHANGED <<file, gitWorktrees, branches, procs, busy, clock, last, hist>>

\* Process p runs the rest of its create, from the duplicate check to the
\* save, on the document it read when it started.
Finish(p, env) ==
    /\ running[p].phase = "loaded"
    /\ CreateWith(running[p].read, running[p].issueNumber, running[p].slug,
                  FALSE, running[p].hasPort, running[p].portOpt,
                  running[p].prefixOpt, env)
    /\ running' = [running EXCEPT ![p] = [@ EXCEPT !.phase = "done",
                                                   !.result = last'.result]]

\* Process p is killed in its create after git worktree add has returned and
\* before saveMetadata: the worktree and the branch exist, nothing is saved.
Killed(p) ==
    LET name == worktreeName(running[p].issueNumber, running[p].slug)
        branch == branchNameOf(running[p].prefixOpt, running[p].issueNumber,
                               running[p].slug)
    IN  /\ running[p].phase = "loaded"
        /\ ~HasWorktree(loadMetadata(running[p].read), name)
        /\ ~gitAddFails(name, branch, FALSE)
        /\ gitWorktrees' = gitWorktrees \cup {[name |-> name, branch |-> branch]}
        /\ branches' = branches \cup {branch}
        /\ running' = [running EXCEPT ![p] = [@ EXCEPT !.phase = "killed"]]
        /\ UNCHANGED <<file, procs, busy, clock, last, hist>>

KilledOp == \E p \in Procs : Killed(p)

BeginOp(env) ==
    \E p \in Procs, target \in env.targets, prefixOpt \in env.prefixes,
       hasPort \in BOOLEAN :
    \E portOpt \in (IF hasPort THEN env.overrides ELSE {0}) :
        Begin(p, target[1], target[2], hasPort, portOpt, prefixOpt)

FinishOp(env) == \E p \in Procs : Finish(p, env)

NextRace ==
    \/ BeginOp(Race)
    \/ FinishOp(Race)
    \/ KilledOp
    \/ List

RaceSpec == InitRace /\ [][NextRace]_vars

\* A delete of one worktree side by side with a create of another, in a
\* repository that creates run one at a time have filled before.
Mix ==
    [Core EXCEPT !.targets = {<<1, "a">>, <<2, "b">>},
                 !.servers = {FALSE}, !.links = {"skip"},
                 !.maxClock = MaxMixClock]

InitMix == InitWith(Mix)

NoneStarted == \A p \in Procs : running[p].phase = "idle"

\* A create that runs alone, before the two processes start.
CreateAlone(env) == NoneStarted /\ CreateOp(env)

\* Process p starts a delete: loadMetadata at the head of deleteWorktree.
BeginDelete(p, issueNumber, force) ==
    /\ running[p].phase = "idle"
    /\ running' = [running EXCEPT ![p] =
                      [Idle EXCEPT !.phase = "loaded", !.op = "delete",
                                   !.issueNumber = issueNumber,
                                   !.force = force, !.read = file]]
    /\ UNCHANGED <<file, gitWorktrees, branches, procs, busy, clock, last, hist>>

\* Process p runs the rest of its delete, from the lookup of the record to
\* the save, on the document it read when it started.
FinishDelete(p) ==
    /\ running[p].phase = "loaded"
    /\ running[p].op = "delete"
    /\ DeleteWith(running[p].read, running[p].issueNumber, running[p].force)
    /\ running' = [running EXCEPT ![p] = [@ EXCEPT !.phase = "done",
                                                   !.result = last'.result]]

\* Process p runs the rest of its create.
FinishCreate(p, env) == running[p].op = "create" /\ Finish(p, env)

BeginDeleteOp(env) ==
    \E p \in Procs, issueNumber \in env.issues, force \in BOOLEAN :
        BeginDelete(p, issueNumber, force)

NextMix ==
    \/ CreateAlone(Mix)
    \/ BeginOp(Mix)
    \/ BeginDeleteOp(Mix)
    \/ \E p \in Procs : FinishCreate(p, Mix)
    \/ \E p \in Procs : FinishDelete(p)
    \/ List

MixSpec == InitMix /\ [][NextMix]_vars

\* Runs in which the process may be killed while create saves.
Kill ==
    [Core EXCEPT !.servers = {FALSE}, !.links = {"skip"},
                 !.saveCuts = {"none", "before", "during"},
                 !.maxClock = MaxKillClock]

InitKill == InitWith(Kill)

NextKill ==
    \/ CreateOp(Kill)
    \/ DeleteOp(Kill)
    \/ List
    \/ InfoOp(Kill)

KillSpec == InitKill /\ [][NextKill]_vars

\* One invocation at a time, with the port search of create taken one probe
\* at a time.  Every external command returns (execSync blocks until it
\* does), so the steps of an invocation other than the probe loop are
\* straight-line code or loops over finite listings.
Step ==
    [Core EXCEPT !.servers = {FALSE}, !.links = {"skip"},
                 !.busy = {DEFAULT_BASE_PORT, DEFAULT_BASE_PORT + 1},
                 !.maxClock = MaxStepClock]

InitStep == InitWith(Step)

\* the one process of these runs
Cli1 == "A"

NoneRunning == running[Cli1].phase \in {"idle", "done"}

\* A create is invoked and loads the metadata file.
Invoke(issueNumber, slug, hasPort, portOpt, prefixOpt) ==
    /\ NoneRunning
    /\ clock < Step.maxClock
    /\ running' = [running EXCEPT ![Cli1] =
                      [Idle EXCEPT !.phase = "loaded", !.op = "create",
                                   !.issueNumber = issueNumber, !.slug = slug,
                                   !.hasPort = hasPort, !.portOpt = portOpt,
                                   !.prefixOpt = prefixOpt, !.read = file]]
    /\ UNCHANGED <<file, gitWorktrees, branches, procs, busy, clock, last, hist>>

InvokeOp ==
    \E target \in Step.targets, hasPort \in BOOLEAN :
    \E portOpt \in (IF hasPort THEN Step.overrides ELSE {0}) :
        Invoke(target[1], target[2], hasPort, portOpt, "")

\* getNextAvailablePort is entered: let port = preferredPort ?? nextPort
StartProbe ==
    /\ running[Cli1].phase = "loaded"
    /\ ~HasWorktree(loadMetadata(running[Cli1].read), RunNameOf(Cli1))
    /\ running' = [running EXCEPT ![Cli1] =
                      [@ EXCEPT !.phase = "probing",
                                !.candidate = IF running[Cli1].hasPort
                                              THEN running[Cli1].portOpt
                                              ELSE loadMetadata(file).nextPort]]
    /\ UNCHANGED <<file, gitWorktrees, branches, procs, busy, clock, last, hist>>

\* Mutation: the candidate is not advanced.
nextCandidate_Stuck(port) == port

\* port++
nextCandidate(port) == port + 1

\* one turn of while (await isPortInUse(port)) { port++ }
ProbeStep ==
    /\ running[Cli1].phase = "probing"
    /\ running' = [running EXCEPT ![Cli1] =
                      IF isPortInUse(@.candidate, BoundPorts)
                      THEN [@ EXCEPT !.candidate = nextCandidate(@)]
                      ELSE [@ EXCEPT !.phase = "probed"]]
    /\ UNCHANGED <<file, gitWorktrees, branches, procs, busy, clock, last, hist>>

\* The rest of the create: it throws at the duplicate check, or goes on
\* from the port to its end.
Complete ==
    /\ \/ running[Cli1].phase = "probed"
       \/ /\ running[Cli1].phase = "loaded"
          /\ HasWorktree(loadMetadata(running[Cli1].read), RunNameOf(Cli1))
    /\ CreateWith(running[Cli1].read, running[Cli1].issueNumber,
                  running[Cli1].slug, FALSE, running[Cli1].hasPort,
                  running[Cli1].portOpt, running[Cli1].prefixOpt, Step)
    /\ running' = [running EXCEPT ![Cli1] = [@ EXCEPT !.phase = "done",
                                                      !.result = last'.result]]

NextStep ==
    \/ InvokeOp
    \/ StartProbe
    \/ ProbeStep
    \/ Complete
    \/ (NoneRunning /\ DeleteOp(Step))
    \/ (NoneRunning /\ List)
    \/ (NoneRunning /\ InfoOp(Step))

StepSpec == InitStep /\ [][NextStep]_vars

\* An invocation is one process that runs until it exits: its next step is
\* always taken.
StepLive == StepSpec /\ WF_vars(StartProbe) /\ WF_vars(ProbeStep) /\ WF_vars(Complete)

----------------------------------------------------------------------------
(* The legacy per-project script (scripts/worktree.ts) *)

\* Its operations as functions of the metadata file and of what the
\* environment answers (ans): the file they leave and how they end.  The
\* script sits in the project's scripts directory, so its rootDir is the
\* project root the library finds.

LEGACY_BASE_PORT == 4322

legacyLoadMetadata(f) ==
    IF f.status = "absent" THEN [worktrees |-> <<>>, nextPort |-> LEGACY_BASE_PORT]
    ELSE IF f.status = "valid" THEN f.doc
    ELSE [worktrees |-> <<>>, nextPort |-> LEGACY_BASE_PORT]

\* fs.writeFileSync(metadataPath, JSON.stringify(metadata, null, 2))
legacySaveMetadata(md) == [status |-> "valid", doc |-> jsonRoundTrip(md)]

\* getNextAvailablePort(): from metadata.nextPort upwards
RECURSIVE legacyProbe(_, _)
legacyProbe(port, inUse) ==
    IF port \in inUse THEN legacyProbe(port + 1, inUse) ELSE port

legacyGetNextAvailablePort(f, inUse) ==
    legacyProbe(legacyLoadMetadata(f).nextPort, inUse)

\* snapshotDatabases(worktreePath): the script's text is the library's
legacySnapshotDatabases(worktreePath, databases) ==
    snapshotDatabases(worktreePath, databases).snapshots

\* the pid startDevServer returns, NULL when it throws
legacyStartDevServer(hasPackageJson, spawnPid) ==
    IF ~hasPackageJson THEN NULL ELSE spawnPid

legacyCreateWorktree(f, issueNumber, slug, startServer, prefixOpt, ans) ==
    LET metadata == legacyLoadMetadata(f)
        name == "issue-" \o ToString(issueNumber) \o "-" \o slug
        wpath == pathJoin(RootDir, <<WORKTREE_DIR, name>>)
        branchPrefix == IF prefixOpt # "" THEN prefixOpt
                        ELSE IF PROJECT_PREFIX # "" THEN PROJECT_PREFIX
                        ELSE RootBaseName
        branchName == branchPrefix \o "/issue-" \o ToString(issueNumber) \o "-" \o slug
        known == {i \in DOMAIN metadata.worktrees : metadata.worktrees[i].name = name}
        port == legacyGetNextAvailablePort(f, ans.inUse)
        pid == IF startServer
               THEN legacyStartDevServer(ans.hasPackageJson, ans.spawnPid)
               ELSE NULL
        info == [issueNumber |-> issueNumber, branch |-> branchName, port |-> port,
                 path |-> WORKTREE_DIR \o "/" \o name, createdAt |-> ans.now,
                 dbSnapshots |-> legacySnapshotDatabases(wpath, ans.databases),
                 devServerPid |-> pid]
    IN  IF known # {} THEN [file |-> f, result |-> "DuplicateError"]
        ELSE IF ans.gitFailed THEN [file |-> f, result |-> "ProvisionError"]
        ELSE IF ans.discoveryThrows THEN [file |-> f, result |-> "DiscoveryError"]
        ELSE [file |-> legacySaveMetadata(
                           [worktrees |-> Append(metadata.worktrees,
                                                 [name |-> name, info |-> info]),
                            nextPort |-> port + 1]),
              result |-> "ok"]

legacyDeleteWorktree(f, issueNumber, force, ans) ==
    LET metadata == legacyLoadMetadata(f)
        ws == metadata.worktrees
        hits == {i \in DOMAIN ws : ws[i].info.issueNumber = issueNumber}
        first == CHOOSE i \in hits : \A j \in hits : i <= j
    IN  IF hits = {} THEN [file |-> f, result |-> "NotFoundError"]
        ELSE IF ans.removeFailed /\ ~force
        THEN [file |-> f, result |-> "TeardownError"]
        ELSE [file |-> legacySaveMetadata(
                           [worktrees |-> SubSeq(ws, 1, first - 1)
                                          \o SubSeq(ws, first + 1, Len(ws)),
                            nextPort |-> metadata.nextPort]),
              result |-> "ok"]

legacyListWorktrees(f) == [file |-> f, result |-> "ok"]

legacyShowWorktreeInfo(f, issueNumber) ==
    LET ws == legacyLoadMetadata(f).worktrees
    IN  [file |-> f,
         result |-> IF \E i \in DOMAIN ws : ws[i].info.issueNumber = issueNumber
                    THEN "ok" ELSE "NotFoundError"]

----------------------------------------------------------------------------
(* Properties *)

\* the document an operation started from, and the one it left
DocBefore == loadMetadata(last.before)
DocNow == loadMetadata(file)

Present(md, name) == \E i \in DOMAIN md.worktrees : md.worktrees[i].name = name
Carried(md, n) == \E i \in DOMAIN md.worktrees : md.worktrees[i].info.issueNumber = n

CalledName == "issue-" \o ToString(last.call.issueNumber) \o "-" \o last.call.slug

\* C1: a create for a name the document already holds fails with the
\* duplicate error, leaves the persisted document as it was and runs no port
\* probe, no git command and no save.
C1_DuplicateCreateRejected ==
    (last.call.op = "create" /\ Present(DocBefore, CalledName))
        => /\ last.result = "DuplicateError"
           /\ file = last.before
           /\ last.effects = <<>>

C1_Witness ==
    /\ last.call.op = "create"
    /\ last.result = "DuplicateError"
    /\ Len(DocBefore.worktrees) = 2

\* C2: no two records of the metadata document have the same port.
C2_PortsUnique ==
    \A i, j \in DOMAIN DocNow.worktrees :
        i # j => DocNow.worktrees[i].info.port # DocNow.worktrees[j].info.port

\* C3: no operation decreases the persisted nextPort.
C3_NextPortNeverDecreases ==
    DocNow.nextPort >= DocBefore.nextPort

\* C4: in a run without delete, a create without port override gets a port
\* at least one above the port of every earlier create without override.
C4_AutoPortsIncrease ==
    \A i, j \in DOMAIN hist.autoPorts :
        i < j => hist.autoPorts[j] >= hist.autoPorts[i] + 1

\* C5: right after a successful create(issueNumber, slug), info(issueNumber)
\* returns the record with that issue number, the branch
\* {prefix}/issue-{issueNumber}-{slug} and the path
\* .worktrees/issue-{issueNumber}-{slug}.
C5_InfoAfterCreate ==
    (last.call.op = "create" /\ last.result = "ok")
        => LET r == showWorktreeInfo(file, last.call.issueNumber)
           IN  /\ r.result = "ok"
               /\ r.ret.issueNumber = last.call.issueNumber
               /\ r.ret.branch = branchPrefixOf(last.call.prefixOpt) \o "/" \o CalledName
               /\ r.ret.path = ".worktrees/" \o CalledName

\* C6: after a successful delete(N), list returns no record with issue
\* number N and info(N) fails with the not-found error.
C6_GoneAfterDelete ==
    (last.call.op = "delete" /\ last.result = "ok")
        => /\ \A i \in DOMAIN listWorktrees(file) :
                  listWorktrees(file)[i].issueNumber # last.call.issueNumber
           /\ showWorktreeInfo(file, last.call.issueNumber).result = "NotFoundError"

\* C7: a delete for an issue number that no record carries fails with the
\* not-found error, with or without force, leaves the metadata file as it
\* was, signals no process and runs no git command.
C7_DeleteMissingRejected ==
    (last.call.op = "delete" /\ ~Carried(DocBefore, last.call.issueNumber))
        => /\ last.result = "NotFoundError"
           /\ file = last.before
           /\ last.effects = <<>>

C7_Witness ==
    /\ last.call.op = "delete"
    /\ last.call.force
    /\ last.result = "NotFoundError"
    /\ Len(DocBefore.worktrees) >= 1

\* C8: a delete without force whose git worktree removal fails ends with
\* an error and leaves the metadata file as it was, the record included.
C8_UnforcedFailureKeepsRecord ==
    (/\ last.call.op = "delete"
     /\ ~last.call.force
     /\ Did(last.effects, "git-worktree-remove", 0))
        => /\ last.result = "TeardownError"
           /\ file = last.before
           /\ Present(DocNow, last.found)
           /\ Carried(DocNow, last.call.issueNumber)

C8_Witness ==
    /\ last.call.op = "delete"
    /\ ~last.call.force
    /\ Did(last.effects, "git-worktree-remove", 0)
    /\ \E i \in DOMAIN last.effects : last.effects[i].kind = "signal"

\* C9: a delete with force for an issue number that some record carries
\* ends successfully with the record it found gone from the persisted
\* document and every other record kept, whether or not the removal and the
\* signal worked.
C9_ForcedDeleteDropsRecord ==
    (/\ last.call.op = "delete"
     /\ last.call.force
     /\ Carried(DocBefore, last.call.issueNumber))
        => /\ last.result = "ok"
           /\ Present(DocBefore, last.found)
           /\ ~Present(DocNow, last.found)
           /\ Len(DocNow.worktrees) = Len(DocBefore.worktrees) - 1
           /\ \A i \in DOMAIN DocBefore.worktrees :
                  DocBefore.worktrees[i].name # last.found
                      => \E j \in DOMAIN DocNow.worktrees :
                             DocNow.worktrees[j] = DocBefore.worktrees[i]

C9_Witness ==
    /\ last.call.op = "delete"
    /\ last.call.force
    /\ last.result = "ok"
    /\ Did(last.effects, "git-worktree-remove", 0)
    /\ \E i \in DOMAIN last.effects : last.effects[i].kind = "signal-failed"

\* C10: a create whose git worktree step fails ends with an error after the
\* port was probed, and leaves the metadata file, nextPort included, as it
\* was.
C10_FailedProvisionPersistsNothing ==
    (/\ last.call.op = "create"
     /\ \E i \in DOMAIN last.effects :
            /\ last.effects[i].kind \in {"git-worktree-add", "git-worktree-add-b"}
            /\ last.effects[i].n = 0)
        => /\ last.result = "ProvisionError"
           /\ file = last.before
           /\ last.effects[1].kind = "probe"
           /\ ~Did(last.effects, "save", 0)

C10_Witness ==
    /\ last.call.op = "create"
    /\ last.result = "ProvisionError"
    /\ last.before.status = "valid"
    /\ Len(last.effects) > 3

\* the pid spawn handed out in the last operation (NULL: spawn was not
\* called or yielded no pid)
SpawnedPid ==
    IF \E i \in DOMAIN last.effects : last.effects[i].kind = "spawn"
    THEN LET i == CHOOSE i \in DOMAIN last.effects : last.effects[i].kind = "spawn"
         IN  last.effects[i].n
    ELSE NULL

StartRequested ==
    \E i \in DOMAIN last.effects : last.effects[i].kind = "package-json"

\* the record the document holds under a name
RecordOf(md, name) ==
    LET i == CHOOSE i \in DOMAIN md.worktrees : md.worktrees[i].name = name
    IN  md.worktrees[i].info

\* C11: a create that gets as far as starting the dev server succeeds
\* whether or not the start works; the record it persists and the record it
\* returns carry the spawned pid when the start worked and null when it
\* failed (no package.json, no pid from spawn) or was not requested.
C11_StartFailureNotFatal ==
    /\ (last.call.op = "create" /\ StartRequested) => last.result = "ok"
    /\ (last.call.op = "create" /\ last.result = "ok")
           => /\ Present(DocNow, CalledName)
              /\ RecordOf(DocNow, CalledName).devServerPid = SpawnedPid
              /\ last.ret.devServerPid = SpawnedPid
              /\ (~StartRequested => SpawnedPid = NULL)
              /\ Did(last.effects, "package-json", 0) => SpawnedPid = NULL

C11_Witness ==
    /\ last.call.op = "create"
    /\ last.result = "ok"
    /\ Did(last.effects, "spawn", NULL)
    /\ Present(DocNow, CalledName)
    /\ \E i \in DOMAIN DocNow.worktrees : DocNow.worktrees[i].info.devServerPid # NULL

GitWorktreeCreated ==
    \E i \in DOMAIN last.effects :
        /\ last.effects[i].kind \in {"git-worktree-add", "git-worktree-add-b"}
        /\ last.effects[i].n = 1

\* C12: once its git worktree is created, a create persists and returns the
\* record whatever goes wrong with the node_modules link, with the discovery
\* of the databases and with their snapshots.
C12_DatabaseAndLinkNeverBlock ==
    (last.call.op = "create" /\ GitWorktreeCreated)
        => /\ last.result = "ok"
           /\ Did(last.effects, "save", 0)
           /\ Present(DocNow, CalledName)
           /\ RecordOf(DocNow, CalledName) = last.ret

\* where the snapshot of a candidate goes in the worktree of the last call
TargetOf(c) ==
    pathJoin(RootDir \o <<".worktrees", CalledName>>, pathRelative(RootDir, c.source))

\* stat and copy worked and every copied file passed the integrity check
AllPassed(c) == c.readable /\ \A i \in DOMAIN c.valid : c.valid[i]

\* C13: every path in the dbSnapshots of the record a create persists is
\* the target of a candidate all of whose copied files passed the integrity
\* check; a candidate with a file that failed it has no path there.
C13_OnlyVerifiedSnapshotsRecorded ==
    (last.call.op = "create" /\ last.result = "ok")
        => LET paths == RecordOf(DocNow, CalledName).dbSnapshots
           IN  /\ \A k \in DOMAIN paths :
                      \E j \in DOMAIN hist.databases :
                          /\ TargetOf(hist.databases[j]) = paths[k]
                          /\ AllPassed(hist.databases[j])
               /\ \A j \in DOMAIN hist.databases :
                      ~AllPassed(hist.databases[j])
                          => \A k \in DOMAIN paths :
                                 paths[k] # TargetOf(hist.databases[j])

C13_Witness ==
    /\ last.call.op = "create"
    /\ last.result = "ok"
    /\ hist.databases = <<D1Mixed, RootOk>>
    /\ RecordOf(DocNow, CalledName).dbSnapshots = <<TargetOf(RootOk)>>

IsSnapshotAttempt(e) == e.kind = "snapshot"

\* the outcomes of the calls of snapshotDatabase in the last operation
SnapshotAttempts == SelectSeq(last.effects, IsSnapshotAttempt)

\* the targets of the candidates from the j-th on whose attempt succeeded
RECURSIVE SucceededFrom(_)
SucceededFrom(j) ==
    IF j > Len(hist.databases) THEN <<>>
    ELSE (IF SnapshotAttempts[j].n = 1 THEN <<TargetOf(hist.databases[j])>> ELSE <<>>)
         \o SucceededFrom(j + 1)

\* C14: snapshotDatabases calls snapshotDatabase once for every candidate
\* found, whatever the earlier calls did, and returns the targets of the
\* calls that succeeded, in the order of discovery; without candidates it
\* returns the empty sequence and create goes on.
C14_EveryCandidateAttempted ==
    (last.call.op = "create" /\ Did(last.effects, "discover", 1))
        => /\ last.result = "ok"
           /\ Len(SnapshotAttempts) = Len(hist.databases)
           /\ last.ret.dbSnapshots = SucceededFrom(1)
           /\ hist.databases = <<>> => last.ret.dbSnapshots = <<>>

C14_Witness ==
    /\ last.call.op = "create"
    /\ last.result = "ok"
    /\ hist.databases = <<D1Empty, RootGone, CustomOk>>
    /\ [k \in DOMAIN SnapshotAttempts |-> SnapshotAttempts[k].n] = <<0, 0, 1>>
    /\ last.ret.dbSnapshots = <<TargetOf(CustomOk)>>

\* C15: no two records of the metadata document carry the same issue number.
C15_IssueNumberUnique ==
    \A i, j \in DOMAIN DocNow.worktrees :
        i # j => DocNow.worktrees[i].info.issueNumber
                     # DocNow.worktrees[j].info.issueNumber

\* C16: the devServerPid of a persisted record is null unless a dev server
\* was started for it, and null again once a delete has signalled that
\* process, also when the delete then fails at the removal and the record
\* stays.
C16_PidNullAfterStop ==
    /\ (last.call.op = "create" /\ last.result = "ok" /\ SpawnedPid = NULL)
           => RecordOf(DocNow, CalledName).devServerPid = NULL
    /\ (/\ last.call.op = "delete"
        /\ \E i \in DOMAIN last.effects :
               last.effects[i].kind \in {"signal", "signal-failed"}
        /\ Present(DocNow, last.found))
           => RecordOf(DocNow, last.found).devServerPid = NULL

\* C17: list returns every record of the document exactly once, in
\* ascending issue number; on a document without records it returns the
\* empty sequence and does not fail.
C17_ListSortedAndComplete ==
    last.call.op = "list"
        => LET ws == DocBefore.worktrees
               l == last.listed
           IN  /\ last.result = "ok"
               /\ Len(l) = Len(ws)
               /\ \A i \in DOMAIN ws :
                      Cardinality({k \in DOMAIN l : l[k] = ws[i].info})
                          = Cardinality({j \in DOMAIN ws : ws[j].info = ws[i].info})
               /\ \A a, b \in DOMAIN l :
                      a < b => l[a].issueNumber <= l[b].issueNumber
               /\ ws = <<>> => l = <<>>

C17_Witness ==
    /\ last.call.op = "list"
    /\ Len(DocBefore.worktrees) = 2
    /\ DocBefore.worktrees[1].info.issueNumber > DocBefore.worktrees[2].info.issueNumber
    /\ last.listed[1] = DocBefore.worktrees[2].info

\* C18: list and info leave the metadata file as it was, whether they
\* succeed or fail.
C18_QueriesNeverWrite ==
    last.call.op \in {"list", "info"}
        => /\ file = last.before
           /\ ~Did(last.effects, "save", 0)

C18_Witness ==
    /\ last.call.op = "info"
    /\ last.result = "NotFoundError"
    /\ last.before.status = "valid"
    /\ file = last.before

IsProbe(e) == e.kind = "probe"

\* the metadata file a first create(15, "dark-mode") without dev server and
\* without databases leaves
IsScenarioFile(f) ==
    /\ f.status = "valid"
    /\ f.doc.nextPort = 4323
    /\ Len(f.doc.worktrees) = 1
    /\ f.doc.worktrees[1].name = "issue-15-dark-mode"
    /\ f.doc.worktrees[1].info.port = 4322
    /\ f.doc.worktrees[1].info.createdAt = 0
    /\ f.doc.worktrees[1].info.dbSnapshots = <<>>
    /\ f.doc.worktrees[1].info.devServerPid = NULL

\* C19: without metadata file, databases and branch, with the default base
\* port and port 4322 free, create(15, "dark-mode") without dev server
\* returns and persists a record with no snapshots, no pid and port 4322 and
\* leaves nextPort at 4323; a list on the file it leaves returns exactly one
\* record, that of issue 15.
C19_FirstCreateScenario ==
    /\ (/\ last.call = Call("create", 15, "dark-mode", FALSE, "")
        /\ last.before = NoFile
        /\ SelectSeq(last.effects, IsProbe) = <<Eff("probe", 4322)>>
        /\ Did(last.effects, "git-branch-list", 0)
        /\ GitWorktreeCreated
        /\ Did(last.effects, "discover", 1)
        /\ SnapshotAttempts = <<>>
        /\ ~StartRequested)
           => /\ last.result = "ok"
              /\ last.ret.issueNumber = 15
              /\ last.ret.dbSnapshots = <<>>
              /\ last.ret.devServerPid = NULL
              /\ last.ret.port = 4322
              /\ DocNow.nextPort = 4323
              /\ DocNow.worktrees = <<[name |-> "issue-15-dark-mode", info |-> last.ret]>>
              /\ IsScenarioFile(file)
    /\ (last.call.op = "list" /\ IsScenarioFile(last.before))
           => /\ last.result = "ok"
              /\ Len(last.listed) = 1
              /\ last.listed[1].issueNumber = 15
              /\ last.listed[1] = last.before.doc.worktrees[1].info

C19_Witness ==
    /\ last.call.op = "list"
    /\ IsScenarioFile(last.before)
    /\ hist.autoPorts = <<4322>>
    /\ Len(last.listed) = 1
    /\ last.listed[1].branch = "repo/issue-15-dark-mode"

\* C20: the process exits with 1 when create, delete or info fails, when
\* required arguments are missing and when the command is unknown, and with
\* 0 when the operation succeeds, best-effort warnings or not.
C20_ExitCodes ==
    /\ last.result \in {"DuplicateError", "ProvisionError", "NotFoundError",
                        "TeardownError", "UsageError", "UnknownCommand"}
           => last.exit = 1
    /\ last.result = "ok" => last.exit = 0

\* C21: loadMetadata gives the default document {worktrees: {}, nextPort:
\* basePort} when there is no file and when the file does not parse, and the
\* stored document when it parses; the operations that call it do not end
\* with an error of its own.
C21_LoadNeverRaises ==
    (last.call.op \in {"create", "delete", "list", "info"}
         /\ last.result # "UsageError")
        => /\ last.before.status \in {"absent", "corrupt"}
                  => last.loaded = [worktrees |-> <<>>, nextPort |-> DEFAULT_BASE_PORT]
           /\ last.before.status = "valid" => last.loaded = last.before.doc
           /\ last.result \in {"ok", "DuplicateError", "ProvisionError",
                               "DiscoveryError", "NotFoundError", "TeardownError"}

C21_Witness ==
    /\ last.call.op = "list"
    /\ last.before.status = "corrupt"
    /\ Len(last.before.doc.worktrees) = 2
    /\ last.listed = <<>>
    /\ last.result = "ok"

\* the worktree name a process's create is about
RunName(p) == worktreeName(running[p].issueNumber, running[p].slug)

RanOk(p) == running[p].phase = "done" /\ running[p].result = "ok"

\* C22: two creates for different worktrees that run side by side and both
\* read the document before either saves both return success, and the
\* document that is left holds the record of exactly one of them and is one
\* record longer than the document they read; when the second reads after the first has saved, both
\* records are there.
C22_ConcurrentCreatesLoseARecord ==
    \A p \in Procs, q \in Procs :
        (p # q /\ RanOk(p) /\ RanOk(q) /\ RunName(p) # RunName(q))
            => /\ running[p].read = running[q].read
                   => /\ Present(DocNow, RunName(p)) # Present(DocNow, RunName(q))
                      /\ Len(DocNow.worktrees) = Len(loadMetadata(running[p].read).worktrees) + 1
               /\ Present(loadMetadata(running[q].read), RunName(p))
                   => Present(DocNow, RunName(p)) /\ Present(DocNow, RunName(q))

C22_Witness ==
    /\ RanOk("A") /\ RanOk("B")
    /\ RunName("A") = "issue-1-a" /\ RunName("B") = "issue-2-b"
    /\ running["A"].read = NoFile /\ running["B"].read = NoFile
    /\ Len(DocNow.worktrees) = 1
    /\ Present(DocNow, "issue-1-a") /\ ~Present(DocNow, "issue-2-b")

\* what the environment answered in the last operation, read from its log
AnswersOfLast ==
    LET probes == SelectSeq(last.effects, IsProbe) IN
    [inUse |-> {probes[i].n : i \in 1..(Len(probes) - 1)},
     gitFailed |-> Did(last.effects, "git-worktree-add", 0)
                   \/ Did(last.effects, "git-worktree-add-b", 0),
     discoveryThrows |-> Did(last.effects, "discover", 0),
     databases |-> hist.databases,
     hasPackageJson |-> Did(last.effects, "package-json", 1),
     spawnPid |-> SpawnedPid,
     now |-> IF last.result = "ok" THEN last.ret.createdAt ELSE clock,
     removeFailed |-> Did(last.effects, "git-worktree-remove", 0)]

\* the legacy script run in place of the last operation
LegacyOfLast ==
    CASE last.call.op = "create" ->
             legacyCreateWorktree(last.before, last.call.issueNumber, last.call.slug,
                                  StartRequested, last.call.prefixOpt, AnswersOfLast)
      [] last.call.op = "delete" ->
             legacyDeleteWorktree(last.before, last.call.issueNumber,
                                  last.call.force, AnswersOfLast)
      [] last.call.op = "list" -> legacyListWorktrees(last.before)
      [] last.call.op = "info" ->
             legacyShowWorktreeInfo(last.before, last.call.issueNumber)

\* C23: on the same metadata file and with the same answers of the
\* environment, every create without a port override, delete, list and info
\* of the library leaves the file the legacy script leaves and succeeds or
\* fails as the script does; the file either of them wrote is one the other
\* loads as the same document.
C23_LibraryMatchesLegacyScript ==
    (last.call.op \in {"create", "delete", "list", "info"} /\ ~last.call.hasPort)
        => /\ file = LegacyOfLast.file
           /\ last.result = LegacyOfLast.result
           /\ legacyLoadMetadata(file) = loadMetadata(file)
           /\ loadMetadata(LegacyOfLast.file) = legacyLoadMetadata(LegacyOfLast.file)

C23_Witness ==
    /\ last.call.op = "delete" /\ last.result = "ok"
    /\ Len(DocBefore.worktrees) = 2 /\ Len(DocNow.worktrees) = 1
    /\ DocBefore.worktrees[1].info.issueNumber = last.call.issueNumber
    /\ DocNow.worktrees[1].info.devServerPid # NULL
    /\ DocNow.nextPort = DEFAULT_BASE_PORT + 2
    /\ file = LegacyOfLast.file

\* the positions of the writes of the metadata file in the last operation
SavesOfLast == {i \in DOMAIN last.effects : last.effects[i].kind = "save"}

\* C24: a create that succeeds writes the metadata file exactly once, and
\* the write is its last step: the port probes, git, the node_modules link,
\* the snapshots and the attempt to start the dev server all come before
\* it.  A create that fails writes the file zero times.
C24_CreateSavesOnceAtTheEnd ==
    last.call.op = "create"
        => /\ last.result = "ok"
                => /\ SavesOfLast = {Len(last.effects)}
                   /\ file.status = "valid"
                   /\ Present(DocNow, CalledName)
                   /\ \A i \in DOMAIN last.effects :
                          last.effects[i].kind \in
                              {"probe", "git-branch-list", "git-worktree-add",
                               "git-worktree-add-b", "symlink", "discover",
                               "snapshot", "package-json", "spawn"}
                              => i < Len(last.effects)
           /\ last.result # "ok"
                => /\ SavesOfLast = {}
                   /\ file = last.before

C24_Witness ==
    /\ last.call.op = "create" /\ last.result = "ok"
    /\ \E i \in DOMAIN last.effects :
           /\ last.effects[i].kind = "spawn"
           /\ i = Len(last.effects) - 1
    /\ Did(last.effects, "symlink", 0)
    /\ SavesOfLast = {Len(last.effects)}

ProbesOfLast == SelectSeq(last.effects, IsProbe)

\* the port the search of the last create started from: the preferred port
\* when one was given, the persisted cursor otherwise
ProbeStartOfLast ==
    IF last.call.hasPort THEN last.call.portOpt ELSE DocBefore.nextPort

\* C25: the port search of a create starts at the preferred port when one is
\* given and at the persisted nextPort otherwise, and probes upwards one
\* port at a time; the port it returns is the first that is not in use, every
\* port below it from the start on is in use, and the search itself leaves
\* the metadata file as it was (a create that fails after it has written
\* nothing).
C25_PortSearch ==
    (last.call.op = "create" /\ last.result # "DuplicateError" /\ procs = {})
        => LET s == ProbeStartOfLast
               n == Len(ProbesOfLast)
               p == ProbesOfLast[n].n
           IN  /\ n >= 1
               /\ \A i \in 1..n : ProbesOfLast[i].n = s + i - 1
               /\ p >= s
               /\ p \notin busy
               /\ \A k \in s..(p - 1) : k \in busy
               /\ last.result = "ok" => last.ret.port = p
               /\ last.result # "ok" => file = last.before

C25_Witness ==
    /\ last.call.op = "create" /\ ~last.call.hasPort
    /\ last.result = "ProvisionError"
    /\ ProbeStartOfLast = DEFAULT_BASE_PORT
    /\ busy = {DEFAULT_BASE_PORT}
    /\ Len(ProbesOfLast) = 2
    /\ file = last.before

DerivedBranch ==
    (IF last.call.prefixOpt # "" THEN last.call.prefixOpt ELSE RootBaseName)
    \o "/" \o CalledName

\* a step in which a create succeeds
CreateSucceeds ==
    /\ clock' = clock + 1
    /\ last'.call.op = "create"
    /\ last'.result = "ok"

\* C27: when the branch `{prefix}/issue-{n}-{slug}` exists, a create that
\* succeeds adds the worktree on it and creates no branch; when it does not
\* exist, the create makes exactly that one new branch.  Either way the
\* record's branch is the derived name.
C27_BranchReusedOrCreated ==
    [][CreateSucceeds =>
          /\ DerivedBranch' \in branches
                => /\ branches' = branches
                   /\ Did(last'.effects, "git-branch-list", 1)
                   /\ Did(last'.effects, "git-worktree-add", 1)
                   /\ ~Did(last'.effects, "git-worktree-add-b", 1)
          /\ DerivedBranch' \notin branches
                => /\ branches' = branches \cup {DerivedBranch'}
                   /\ Cardinality(branches') = Cardinality(branches) + 1
                   /\ Did(last'.effects, "git-branch-list", 0)
                   /\ Did(last'.effects, "git-worktree-add-b", 1)
                   /\ ~Did(last'.effects, "git-worktree-add", 1)
          /\ last'.ret.branch = DerivedBranch'
          /\ RecordOf(DocNow', CalledName').branch = DerivedBranch'
          /\ [name |-> CalledName', branch |-> DerivedBranch'] \in gitWorktrees'
      ]_vars

C27_Witness ==
    /\ last.call.op = "create" /\ last.result = "ok"
    /\ Did(last.effects, "git-branch-list", 1)
    /\ Did(last.effects, "git-worktree-add", 1)
    /\ Cardinality(branches) = 1
    /\ last.ret.branch = "repo/issue-1-a"
    /\ clock = 2

RunBranch(p) ==
    branchNameOf(running[p].prefixOpt, running[p].issueNumber, running[p].slug)

\* C28: after a create was killed between git worktree add and the save, a
\* rerun with the same arguments can get through its git step (it would use
\* the branch that exists and create no second one) and go on to persist
\* the record: git does not refuse it when nothing else is wrong.
C28_RerunAfterKillRecovers ==
    \A p \in Procs :
        (running[p].phase = "killed" /\ ~Present(DocNow, RunName(p)))
            => ~gitAddFails(RunName(p), RunBranch(p), FALSE)

IsSignal(e) == e.kind \in {"signal", "signal-failed"}
IsRemoval(e) == e.kind = "git-worktree-remove"

\* C29: a delete that finds its record signals the dev server only when the
\* record holds a pid, then attempts the git removal, then drops the record
\* and saves; the record is dropped and the file saved only when the removal
\* succeeded or force was given, and a signal that reaches no process never
\* ends the delete.
C29_DeleteOrder ==
    (last.call.op = "delete" /\ last.result # "NotFoundError")
        => LET pid == RecordOf(DocBefore, last.found).devServerPid
               signals == SelectSeq(last.effects, IsSignal)
               removals == SelectSeq(last.effects, IsRemoval)
               proceeds == Did(last.effects, "git-worktree-remove", 1)
                           \/ last.call.force
               n == Len(last.effects)
           IN  /\ pid = NULL => signals = <<>> /\ IsRemoval(last.effects[1])
               /\ pid # NULL => /\ Len(signals) = 1 /\ signals[1].n = pid
                                /\ IsSignal(last.effects[1])
                                /\ IsRemoval(last.effects[2])
               /\ Len(removals) = 1
               /\ proceeds => /\ last.effects[n] = Eff("save", 0)
                              /\ SavesOfLast = {n}
                              /\ IsRemoval(last.effects[n - 1])
                              /\ last.result = "ok"
                              /\ ~Present(DocNow, last.found)
               /\ ~proceeds => /\ SavesOfLast = {}
                               /\ file = last.before
                               /\ last.result = "TeardownError"
                               /\ IsRemoval(last.effects[n])

C29_Witness ==
    /\ last.call.op = "delete" /\ last.result = "ok" /\ ~last.call.force
    /\ Len(last.effects) = 3
    /\ last.effects[1].kind = "signal-failed"
    /\ last.effects[2] = Eff("git-worktree-remove", 1)
    /\ last.effects[3] = Eff("save", 0)
    /\ ~Present(DocNow, last.found)

\* a step in which a delete drops the record with this name
DeleteRemoves(name) ==
    /\ file' # file
    /\ last'.call.op = "delete"
    /\ last'.result = "ok"
    /\ last'.found = name

\* C30: once a record is persisted, every later step other than the delete
\* that removes it leaves the record in the document with all its fields
\* unchanged; a delete removes exactly one record and leaves nextPort
\* unchanged.
C30_RecordsAreFramed ==
    [][/\ \A i \in DOMAIN DocNow.worktrees :
              LET r == DocNow.worktrees[i] IN
              IF DeleteRemoves(r.name)
              THEN ~Present(DocNow', r.name)
              ELSE /\ Present(DocNow', r.name)
                   /\ RecordOf(DocNow', r.name) = r.info
       /\ (file' # file /\ last'.call.op = "delete")
              => /\ Len(DocNow'.worktrees) = Len(DocNow.worktrees) - 1
                 /\ DocNow'.nextPort = DocNow.nextPort
       /\ (file' # file /\ last'.call.op = "create")
              => Len(DocNow'.worktrees) = Len(DocNow.worktrees) + 1
       /\ last'.call.op \in {"list", "info"} => file' = file
      ]_vars

C30_Witness ==
    /\ last.call.op = "delete" /\ last.result = "ok"
    /\ Len(DocBefore.worktrees) = 2 /\ Len(DocNow.worktrees) = 1
    /\ DocBefore.worktrees[2].name = last.found
    /\ DocNow.worktrees[1] = DocBefore.worktrees[1]
    /\ DocNow.nextPort = DocBefore.nextPort

\* C31: the record a create that succeeds returns is field for field the
\* record a following load reads from the metadata file under the name
\* issue-{issueNumber}-{slug}, devServerPid included.
C31_ReturnedRecordIsPersisted ==
    (last.call.op = "create" /\ last.result = "ok")
        => /\ Present(DocNow, CalledName)
           /\ RecordOf(DocNow, CalledName) = last.ret

\* C34: every record create persists has a port that is a positive integer.
C34_PersistedPortPositive ==
    \A i \in DOMAIN DocNow.worktrees :
        /\ DocNow.worktrees[i].info.port # NaN
        /\ DocNow.worktrees[i].info.port > 0

\* C32: when the process is killed while create saves, the metadata file
\* holds the complete previous document or the complete new one: a following
\* load returns one of the two.
C32_SaveLeavesOldOrNew ==
    (last.call.op = "create" /\ last.result = "Killed")
        => \/ DocNow = DocBefore
           \/ /\ file.status = "valid"
              /\ DocNow = file.doc
              /\ Present(DocNow, CalledName)
              /\ Len(DocNow.worktrees) = Len(DocBefore.worktrees) + 1

CreateInFlight == running[Cli1].phase \in {"loaded", "probing", "probed"}

\* C33: every invocation runs to completion: a create that has been invoked
\* returns a result or an error, its port search ending at the first port
\* that is not in use (the port the create then records); delete, list and
\* info have no loop to wait in.
C33_InvocationsComplete ==
    /\ [](running[Cli1].phase = "probed"
             => /\ ~isPortInUse(running[Cli1].candidate, BoundPorts)
                /\ running[Cli1].candidate
                       = getNextAvailablePort(file, running[Cli1].hasPort,
                                              running[Cli1].portOpt, BoundPorts))
    /\ [](running[Cli1].phase = "done" /\ running[Cli1].result = "ok"
          /\ last.call.op = "create"
             => last.ret.port = running[Cli1].candidate)
    /\ (CreateInFlight ~> running[Cli1].phase = "done")

C33_Witness ==
    /\ running[Cli1].phase = "done" /\ running[Cli1].result = "ok"
    /\ ~running[Cli1].hasPort
    /\ busy = {DEFAULT_BASE_PORT, DEFAULT_BASE_PORT + 1}
    /\ running[Cli1].candidate = DEFAULT_BASE_PORT + 2
    /\ last.ret.port = DEFAULT_BASE_PORT + 2

\* the directory of the worktree the last call is about
WorktreeDirOfLast == RootDir \o <<".worktrees", CalledName>>

IsInside(dir, p) == Len(p) > Len(dir) /\ SubSeq(p, 1, Len(dir)) = dir

\* C35: every path a create copied a database snapshot to lies inside the
\* directory of the new worktree.
C35_SnapshotsStayInWorktree ==
    (last.call.op = "create" /\ last.result = "ok")
        => \A k \in DOMAIN last.ret.dbSnapshots :
               IsInside(WorktreeDirOfLast, last.ret.dbSnapshots[k])

\* C36: as long as no create has given a port override, no port is given to
\* two creates that succeed, whether or not the record that first held it
\* has been deleted in between: each gets a port above all the earlier ones.
C36_PortsNotReclaimed ==
    ~hist.overridden
        => /\ \A i, j \in DOMAIN hist.assigned :
                  i < j => hist.assigned[i] < hist.assigned[j]
           /\ \A i \in DOMAIN hist.assigned : hist.assigned[i] < DocNow.nextPort
           /\ \A i \in DOMAIN DocNow.worktrees :
                  \E k \in DOMAIN hist.assigned :
                      hist.assigned[k] = DocNow.worktrees[i].info.port

C36_Witness ==
    /\ ~hist.overridden
    /\ hist.assigned = <<DEFAULT_BASE_PORT, DEFAULT_BASE_PORT + 1>>
    /\ last.call.op = "create" /\ last.result = "ok"
    /\ Len(DocNow.worktrees) = 1
    /\ DocNow.worktrees[1].info.port = DEFAULT_BASE_PORT + 1

\* the pids the last operation sent SIGTERM to
SignalledOfLast ==
    {last.effects[i].n : i \in {k \in DOMAIN last.effects : IsSignal(last.effects[k])}}

\* C37: after a delete attempt has sent SIGTERM to the pid of a record, the
\* next delete attempt for that record does not send it to the same pid
\* again.
C37_SignalAtMostOnce ==
    [][~ /\ last.call.op = "delete"
         /\ last'.call.op = "delete"
         /\ last' # last
         /\ last'.found = last.found
         /\ SignalledOfLast # {}
         /\ SignalledOfLast' = SignalledOfLast
      ]_vars

\* the names of the git worktrees and of the records
WorktreeNames == {w.name : w \in gitWorktrees}
RecordNames == {DocNow.worktrees[i].name : i \in DOMAIN DocNow.worktrees}

\* C38: a create or an unforced delete, however it ends, leaves a git
\* worktree for exactly the names the metadata document has a record for,
\* when that was so before it: a create that fails leaves no worktree
\* without a record, a delete that fails leaves no record without a worktree.
C38_WorktreesMatchRecords ==
    [][(/\ last' # last
        /\ \/ last'.call.op = "create"
           \/ last'.call.op = "delete" /\ ~last'.call.force
        /\ WorktreeNames = RecordNames)
           => WorktreeNames' = RecordNames'
      ]_vars

\* the record of the worktree with issue number n in the current document
HasIssue(n) == FindByIssue(DocNow, n) # 0

\* C39: when a delete of one worktree and a create of another run side by
\* side and both succeed, the final document is the one a sequential run
\* gives: it lacks the deleted record, it has the created record, and
\* nextPort is the created record's port plus one.
C39_DeleteBesideCreateIsSequential ==
    \A p, q \in Procs :
        (/\ running[p].phase = "done" /\ running[p].op = "delete"
         /\ running[q].phase = "done" /\ running[q].op = "create"
         /\ running[p].result = "ok" /\ running[q].result = "ok"
         /\ running[p].issueNumber # running[q].issueNumber)
            => /\ ~HasIssue(running[p].issueNumber)
               /\ Present(DocNow, RunNameOf(q))
               /\ DocNow.nextPort = RecordOf(DocNow, RunNameOf(q)).port + 1

====
